---- MODULE Spec2Model ----
(***************************************************************************)
(* ISM report-to-ledger reconciliation (ism_script.py, the manufacturing   *)
(* variant, and ism_service_script.py, the service variant), the sessions  *)
(* of app.py that run it on an uploaded ledger, and the enrichment batch   *)
(* of rapid.py and rapid_copy.py.                                          *)
(*                                                                         *)
(* Every Python string is a sequence of one-character strings, so that     *)
(* lower(), strip(), split(), replace(), substring containment, the        *)
(* regular-expression character classes and the f-string formatting of a   *)
(* rank are computed, not assumed.  A spreadsheet cell, a column header    *)
(* and an industry name are all such sequences.                            *)
(***************************************************************************)
EXTENDS Integers, Sequences, FiniteSets, TLC

VARIABLES variant, file, ret, runs, last, source, applied, sessions, batch

vars == <<variant, file, ret, runs, last, source, applied, sessions, batch>>

(***************************************************************************)
(* Python values that are not strings.                                     *)
(***************************************************************************)
\* None (a failed match, a missing period label).  No string equals it: its
\* one element is not a character.
None == <<"<None>">>

\* float('nan'): what pandas.read_excel gives for an empty cell.
NaN == <<"<nan>">>

\* Python truthiness of a string, a list or None: None, '' and [] are falsy.
Truthy(v) == v /= None /\ v /= <<>>

(***************************************************************************)
(* Characters.                                                             *)
(***************************************************************************)
UpperChars == <<"A","B","C","D","E","F","G","H","I","J","K","L","M",
                "N","O","P","Q","R","S","T","U","V","W","X","Y","Z">>

LowerChars == <<"a","b","c","d","e","f","g","h","i","j","k","l","m",
                "n","o","p","q","r","s","t","u","v","w","x","y","z">>

DigitChars == <<"0","1","2","3","4","5","6","7","8","9">>

Range(s) == {s[i] : i \in DOMAIN s}

UpperSet == Range(UpperChars)

LowerSet == Range(LowerChars)

DigitSet == Range(DigitChars)

IsUpper(c) == c \in UpperSet

IsLower(c) == c \in LowerSet

IsDigit(c) == c \in DigitSet

\* \s of the regular expressions and the default of str.strip()
IsSpace(c) == c \in {" ", "\t", "\n", "\r"}

char_lower(c) ==
  IF IsUpper(c) THEN LowerChars[CHOOSE i \in 1..26 : UpperChars[i] = c] ELSE c

char_upper(c) ==
  IF IsLower(c) THEN UpperChars[CHOOSE i \in 1..26 : LowerChars[i] = c] ELSE c

(***************************************************************************)
(* str methods and operators.                                              *)
(***************************************************************************)
Min(S) == CHOOSE m \in S : \A n \in S : m <= n

Max(S) == CHOOSE m \in S : \A n \in S : m >= n

\* a list built by a comprehension, as a stored tuple (TLC would evaluate
\* the bare function expression anew at every application)
List(f) == f \o <<>>

\* s.lower()
str_lower(s) == List([i \in 1..Len(s) |-> char_lower(s[i])])

\* s.title(): a letter is upper-cased after a non-letter, lower-cased after a letter
str_title(s) ==
  List([i \in 1..Len(s) |->
         IF i = 1 \/ ~(IsUpper(s[i-1]) \/ IsLower(s[i-1]))
         THEN char_upper(s[i]) ELSE char_lower(s[i])])

\* s.strip()
RECURSIVE str_lstrip(_)
str_lstrip(s) ==
  IF s /= <<>> /\ IsSpace(s[1]) THEN str_lstrip(Tail(s)) ELSE s

RECURSIVE str_rstrip(_)
str_rstrip(s) ==
  IF s /= <<>> /\ IsSpace(s[Len(s)])
  THEN str_rstrip(SubSeq(s, 1, Len(s) - 1)) ELSE s

str_strip(s) == str_rstrip(str_lstrip(s))

\* a in b  (substring containment; '' is in every string)
str_in(a, b) == \E i \in 0..(Len(b) - Len(a)) : SubSeq(b, i + 1, i + Len(a)) = a

\* b.startswith(a) at offset i (1-based)
StartsAt(a, b, i) == i + Len(a) - 1 <= Len(b) /\ SubSeq(b, i, i + Len(a) - 1) = a

\* s.replace(old, ''): every non-overlapping occurrence, scanning left to right
RECURSIVE str_remove(_, _)
str_remove(s, old) ==
  IF s = <<>> THEN <<>>
  ELSE IF old /= <<>> /\ StartsAt(old, s, 1)
       THEN str_remove(SubSeq(s, Len(old) + 1, Len(s)), old)
       ELSE <<s[1]>> \o str_remove(Tail(s), old)

\* re.split('[<seps>]', s): the pieces between separator characters; always
\* at least one piece, and an empty piece where two separators meet or the
\* string starts or ends with one
RECURSIVE re_split(_, _)
re_split(seps, s) ==
  LET cut == {i \in 1..Len(s) : s[i] \in seps}
  IN  IF cut = {} THEN <<s>>
      ELSE <<SubSeq(s, 1, Min(cut) - 1)>>
           \o re_split(seps, SubSeq(s, Min(cut) + 1, Len(s)))

\* str(n) for an integer n >= 0
RECURSIVE str_of_nat(_)
str_of_nat(n) ==
  IF n < 10 THEN <<DigitChars[n + 1]>>
  ELSE str_of_nat(n \div 10) \o <<DigitChars[(n % 10) + 1]>>

\* int(s) for a string of digits
RECURSIVE int_of_digits(_)
int_of_digits(s) ==
  IF s = <<>> THEN 0
  ELSE 10 * int_of_digits(SubSeq(s, 1, Len(s) - 1))
       + (CHOOSE d \in 0..9 : DigitChars[d + 1] = s[Len(s)])

STANDARD_INDUSTRIES_MFG ==
  <<
    <<"E","l","e","c","t","r","i","c","a","l"," ","E","q","u","i","p","m","e","n","t",","," ","A","p","p","l","i","a","n","c","e","s"," ","&"," ","C","o","m","p","o","n","e","n","t","s">>,
    <<"T","e","x","t","i","l","e"," ","M","i","l","l","s">>,
    <<"F","u","r","n","i","t","u","r","e"," ","&"," ","R","e","l","a","t","e","d"," ","P","r","o","d","u","c","t","s">>,
    <<"M","a","c","h","i","n","e","r","y">>,
    <<"F","a","b","r","i","c","a","t","e","d"," ","M","e","t","a","l"," ","P","r","o","d","u","c","t","s">>,
    <<"P","r","i","m","a","r","y"," ","M","e","t","a","l","s">>,
    <<"M","i","s","c","e","l","l","a","n","e","o","u","s"," ","M","a","n","u","f","a","c","t","u","r","i","n","g">>,
    <<"C","h","e","m","i","c","a","l"," ","P","r","o","d","u","c","t","s">>,
    <<"P","l","a","s","t","i","c","s"," ","&"," ","R","u","b","b","e","r"," ","P","r","o","d","u","c","t","s">>,
    <<"F","o","o","d",","," ","B","e","v","e","r","a","g","e"," ","&"," ","T","o","b","a","c","c","o"," ","P","r","o","d","u","c","t","s">>,
    <<"C","o","m","p","u","t","e","r"," ","&"," ","E","l","e","c","t","r","o","n","i","c"," ","P","r","o","d","u","c","t","s">>,
    <<"N","o","n","m","e","t","a","l","l","i","c"," ","M","i","n","e","r","a","l"," ","P","r","o","d","u","c","t","s">>,
    <<"A","p","p","a","r","e","l",","," ","L","e","a","t","h","e","r"," ","&"," ","A","l","l","i","e","d"," ","P","r","o","d","u","c","t","s">>,
    <<"T","r","a","n","s","p","o","r","t","a","t","i","o","n"," ","E","q","u","i","p","m","e","n","t">>,
    <<"P","a","p","e","r"," ","P","r","o","d","u","c","t","s">>,
    <<"P","e","t","r","o","l","e","u","m"," ","&"," ","C","o","a","l"," ","P","r","o","d","u","c","t","s">>,
    <<"P","r","i","n","t","i","n","g"," ","&"," ","R","e","l","a","t","e","d"," ","S","u","p","p","o","r","t"," ","A","c","t","i","v","i","t","i","e","s">>,
    <<"W","o","o","d"," ","P","r","o","d","u","c","t","s">>
  >>

STANDARD_INDUSTRIES_SVC ==
  <<
    <<"A","c","c","o","m","m","o","d","a","t","i","o","n"," ","&"," ","F","o","o","d"," ","S","e","r","v","i","c","e","s">>,
    <<"A","g","r","i","c","u","l","t","u","r","e",","," ","F","o","r","e","s","t","r","y",","," ","F","i","s","h","i","n","g"," ","&"," ","H","u","n","t","i","n","g">>,
    <<"A","r","t","s",","," ","E","n","t","e","r","t","a","i","n","m","e","n","t"," ","&"," ","R","e","c","r","e","a","t","i","o","n">>,
    <<"C","o","n","s","t","r","u","c","t","i","o","n">>,
    <<"E","d","u","c","a","t","i","o","n","a","l"," ","S","e","r","v","i","c","e","s">>,
    <<"F","i","n","a","n","c","e"," ","&"," ","I","n","s","u","r","a","n","c","e">>,
    <<"H","e","a","l","t","h"," ","C","a","r","e"," ","&"," ","S","o","c","i","a","l"," ","A","s","s","i","s","t","a","n","c","e">>,
    <<"I","n","f","o","r","m","a","t","i","o","n">>,
    <<"M","a","n","a","g","e","m","e","n","t"," ","o","f"," ","C","o","m","p","a","n","i","e","s"," ","&"," ","S","u","p","p","o","r","t"," ","S","e","r","v","i","c","e","s">>,
    <<"M","i","n","i","n","g">>,
    <<"O","t","h","e","r"," ","S","e","r","v","i","c","e","s">>,
    <<"P","r","o","f","e","s","s","i","o","n","a","l",","," ","S","c","i","e","n","t","i","f","i","c"," ","&"," ","T","e","c","h","n","i","c","a","l"," ","S","e","r","v","i","c","e","s">>,
    <<"P","u","b","l","i","c"," ","A","d","m","i","n","i","s","t","r","a","t","i","o","n">>,
    <<"R","e","a","l"," ","E","s","t","a","t","e",","," ","R","e","n","t","a","l"," ","&"," ","L","e","a","s","i","n","g">>,
    <<"R","e","t","a","i","l"," ","T","r","a","d","e">>,
    <<"T","r","a","n","s","p","o","r","t","a","t","i","o","n"," ","&"," ","W","a","r","e","h","o","u","s","i","n","g">>,
    <<"U","t","i","l","i","t","i","e","s">>,
    <<"W","h","o","l","e","s","a","l","e"," ","T","r","a","d","e">>
  >>

NAME_COL_MFG == <<"I","S","M"," ","M","a","n","u","f","a","c","t","u","r","i","n","g">>

NAME_COL_SVC == <<"I","S","M"," ","S","e","r","v","i","c","e">>

RANK_SUFFIX == <<" ","R","a","n","k">>

STATUS_SUFFIX == <<" ","S","t","a","t","u","s">>

GROWTH == <<"G","r","o","w","t","h">>

CONTRACTION == <<"C","o","n","t","r","a","c","t","i","o","n">>

NEUTRAL == <<"N","e","u","t","r","a","l">>

NEUTRAL_RANK == <<"0"," ","→">>

AND_TOKEN == <<"a","n","d"," ">>

UP_GLYPH == <<" ","↑">>

DOWN_GLYPH == <<" ","↓">>

Machinery == <<"M","a","c","h","i","n","e","r","y">>

Crypto == <<"C","r","y","p","t","o">>

Drones == <<"D","r","o","n","e","s">>

Mining == <<"M","i","n","i","n","g">>

March == <<"M","a","r","c","h">>

April == <<"A","p","r","i","l">>

Y2025 == <<"2","0","2","5">>

ElectricalEquip == <<"E","l","e","c","t","r","i","c","a","l"," ","E","q","u","i","p"," ","&"," ","A","p","p","l","i","a","n","c","e","s">>

\* report names that differ from a standard name by case, by surrounding
\* blanks, by being a part of it or by punctuation alone; the empty name
MatcherNames ==
  {<<"M","e","t","a","l","s">>,
   <<"m","e","t","a","l","s">>,
   <<" ","M","e","t","a","l","s"," ">>,
   <<"P","r","i","m","a","r","y"," ","M","e","t","a","l","s">>,
   <<"F","o","o","d",","," ","B","e","v","e","r","a","g","e">>,
   <<"F","o","o","d"," ","B","e","v","e","r","a","g","e">>,
   Crypto,
   <<>>}


(***************************************************************************)
(* Report Extractor.  A document is what the two extractors see of the     *)
(* fetched page: whether the fetch succeeded, the first "<Month> <year>"   *)
(* match of the page text (has_period, month, year), and for each anchor   *)
(* phrase whether its pattern matched (has_growth, has_contraction) and    *)
(* the text of its capture group.                                          *)
(***************************************************************************)
extract_report_month(doc) ==
  IF doc.has_period
  THEN str_title(SubSeq(doc.month, 1, 3) \o <<"-">>
                 \o SubSeq(doc.year, Len(doc.year) - 1, Len(doc.year)))
  ELSE None

\* One fragment of the manufacturing variant: i.strip()
FragmentMfg(i) == str_strip(i)

\* One fragment of the service variant: i.strip().replace('and ', '')
FragmentSvc(i) == str_remove(str_strip(i), AND_TOKEN)

\* growth or contraction list of one capture group
FragmentsMfg(pieces) ==
  List([i \in 1..Len(pieces) |-> FragmentMfg(pieces[i])])

FragmentsSvc(pieces) ==
  List([i \in 1..Len(pieces) |-> FragmentSvc(pieces[i])])

ExtractList(v, matched, span) ==
  IF ~matched THEN <<>>
  ELSE IF v = "mfg"
       THEN FragmentsMfg(re_split({";"}, span))
       ELSE SelectSeq(FragmentsSvc(re_split({";", ","}, span)),
                      LAMBDA g : g /= <<>>)

extract_industry_data(v, doc) ==
  [growth      |-> ExtractList(v, doc.has_growth, doc.growth),
   contraction |-> ExtractList(v, doc.has_contraction, doc.contraction)]

(***************************************************************************)
(* The documents of the model.  A capture group is None when its anchor   *)
(* phrase is absent; otherwise it is the text captured after the anchor:   *)
(* nothing at all, a name of the seed vocabulary, or names the vocabulary  *)
(* does not have.                                                          *)
(***************************************************************************)
KnownName(v) == IF v = "mfg" THEN Machinery ELSE Mining

GrowthSpans(v) == {None, <<>>, KnownName(v), Crypto}

ContractionSpans(v) ==
  {None,
   IF v = "mfg" THEN Drones \o <<";", " ">> \o Crypto
   ELSE Drones \o <<",", " ">> \o AND_TOKEN \o Crypto}

\* growth spans of the scenarios: a standard name abbreviated, two standard
\* names, a name the vocabulary does not have
ScenarioGrowthSpans(v) ==
  {ElectricalEquip,
   Crypto,
   IF v = "mfg"
   THEN Machinery \o <<";", " ">> \o STANDARD_INDUSTRIES_MFG[2]
   ELSE Mining \o <<";", " ">> \o STANDARD_INDUSTRIES_SVC[4]}

\* every name a list of the model's documents can hold
NamesIn(v) ==
  UNION {Range(ExtractList(v, TRUE, s)) :
           s \in (GrowthSpans(v) \cup ContractionSpans(v)
                  \cup ScenarioGrowthSpans(v)) \ {None}}

ReportNames == NamesIn("mfg") \cup NamesIn("svc")

SeedNames ==
  Range(STANDARD_INDUSTRIES_MFG) \cup Range(STANDARD_INDUSTRIES_SVC)

\* the names the matcher is applied to
CandidateNames == ReportNames \cup MatcherNames \cup {ElectricalEquip}

(***************************************************************************)
(* Name Matcher: match_industry_name.                                      *)
(***************************************************************************)
\* re.sub(r'[^a-z0-9\s]', '', s)
re_sub_clean(s) == SelectSeq(s, LAMBDA c : IsLower(c) \/ IsDigit(c) \/ IsSpace(c))

\* The three comparisons of match_industry_name between a report name and
\* one standard name: <<equal, one contains the other, equal when cleaned>>.
Hits(report_name, std_name) ==
  LET rn        == str_lower(str_strip(report_name))
      std_lower == str_lower(std_name)
  IN  <<rn = std_lower,
        str_in(rn, std_lower) \/ str_in(std_lower, rn),
        re_sub_clean(rn) = re_sub_clean(std_lower)>>

\* Hits is a pure function of two strings.  It is tabulated once for the
\* names that occur in the documents and the seed vocabularies; HitsOf is
\* Hits read from the table.
HitsTable ==
  [p \in CandidateNames \X (SeedNames \cup CandidateNames) |-> Hits(p[1], p[2])]
  @@ <<>>

HitsOf(report_name, std_name) == HitsTable[<<report_name, std_name>>]

\* the last such name of the list instead of the first
LastHit(k, hits, standard_names) ==
  LET at == {i \in DOMAIN standard_names : hits[i][k]}
  IN  IF at = {} THEN None ELSE standard_names[Max(at)]

\* The first name of the list for which comparison k holds, or None.
FirstHit(k, hits, standard_names) ==
  LET at == {i \in DOMAIN standard_names : hits[i][k]}
  IN  IF at = {} THEN None ELSE standard_names[Min(at)]

\* the result of the first loop that returns, tried in the order of the code
FirstTier(t1, t2, t3) ==
  IF t1 /= None THEN t1
  ELSE IF t2 /= None THEN t2
  ELSE t3

\* one loop over the list that tries the three comparisons on each name
SingleLoopMatch(hits, standard_names) ==
  LET at == {i \in DOMAIN standard_names :
               hits[i][1] \/ hits[i][2] \/ hits[i][3]}
  IN  IF at = {} THEN None ELSE standard_names[Min(at)]

TierMatch(hits, standard_names) ==
  FirstTier(FirstHit(1, hits, standard_names),
            FirstHit(2, hits, standard_names),
            FirstHit(3, hits, standard_names))

match_industry_name(report_name, standard_names) ==
  TierMatch(List([i \in 1..Len(standard_names) |-> HitsOf(report_name, standard_names[i])]),
            standard_names)

(***************************************************************************)
(* The spreadsheet file and the pandas DataFrame.                          *)
(*                                                                         *)
(* A table is [columns |-> headers, rows |-> rows], each row a sequence of *)
(* cells aligned with the headers.  In the file an empty cell is ''; in a  *)
(* DataFrame read from the file it is NaN.                                 *)
(***************************************************************************)
NameCol(v) == IF v = "mfg" THEN NAME_COL_MFG ELSE NAME_COL_SVC

STANDARD_INDUSTRIES(v) ==
  IF v = "mfg" THEN STANDARD_INDUSTRIES_MFG ELSE STANDARD_INDUSTRIES_SVC

NoStyle == [font |-> "", fill |-> "", channel |-> 0]

NoFile == [exists |-> FALSE, columns |-> <<>>, rows |-> <<>>, styles |-> <<>>]

\* pd.read_excel(file_path, dtype=str)
read_excel(f) ==
  [columns |-> f.columns,
   rows    |-> List([i \in 1..Len(f.rows) |->
                  List([j \in 1..Len(f.rows[i]) |->
                    IF f.rows[i][j] = <<>> THEN NaN ELSE f.rows[i][j]])])]

\* df.dropna(how='all')
dropna_all(df) ==
  [columns |-> df.columns,
   rows    |-> SelectSeq(df.rows, LAMBDA r : \E j \in 1..Len(r) : r[j] /= NaN)]

\* df.to_excel(file_path, index=False): NaN and '' both leave the cell empty;
\* the workbook is written anew, so no cell keeps a style
to_excel(df) ==
  [exists  |-> TRUE,
   columns |-> df.columns,
   rows    |-> List([i \in 1..Len(df.rows) |->
                  List([j \in 1..Len(df.rows[i]) |->
                    IF df.rows[i][j] = NaN THEN <<>> ELSE df.rows[i][j]])]),
   styles  |-> List([i \in 1..Len(df.rows) |->
                  List([j \in 1..Len(df.columns) |-> NoStyle])])]

\* positions of the columns with this header
ColumnsNamed(t, header) == {j \in 1..Len(t.columns) : t.columns[j] = header}

\* df[header] as a list (the header is present)
df_column(t, header) ==
  LET j == Min(ColumnsNamed(t, header))
  IN  List([i \in 1..Len(t.rows) |-> t.rows[i][j]])

\* pd.DataFrame({name_col: names})
df_of_names(v, names) ==
  [columns |-> <<NameCol(v)>>,
   rows    |-> List([i \in 1..Len(names) |-> <<names[i]>>])]

\* a concat that puts the new rows first
concat_new_rows_first(v, df, new_industries) ==
  [columns |-> df.columns,
   rows    |-> List([i \in 1..Len(new_industries) |->
                 List([j \in 1..Len(df.columns) |->
                   IF df.columns[j] = NameCol(v)
                   THEN new_industries[i] ELSE <<>>])])
               \o df.rows]

\* pd.concat([df, new_rows], ignore_index=True) with new_rows holding the
\* new names in the name column and '' in every other column of df
concat_new_rows(v, df, new_industries) ==
  [columns |-> df.columns,
   rows    |-> df.rows \o
               List([i \in 1..Len(new_industries) |->
                 List([j \in 1..Len(df.columns) |->
                   IF df.columns[j] = NameCol(v)
                   THEN new_industries[i] ELSE <<>>])])]

\* the positions of s that are not in the set drop, as an increasing sequence
RECURSIVE KeptPositions(_, _)
KeptPositions(n, drop) ==
  IF n = 0 THEN <<>>
  ELSE KeptPositions(n - 1, drop) \o (IF n \in drop THEN <<>> ELSE <<n>>)

\* df.drop(columns=headers, errors='ignore')
df_drop(df, headers) ==
  LET drop == {j \in 1..Len(df.columns) : df.columns[j] \in headers}
      keep == KeptPositions(Len(df.columns), drop)
  IN  [columns |-> List([k \in 1..Len(keep) |-> df.columns[keep[k]]]),
       rows    |-> List([i \in 1..Len(df.rows) |->
                     List([k \in 1..Len(keep) |-> df.rows[i][keep[k]]])])]

\* df[header] = values: overwrites the column in place when the header is
\* present, appends a new last column when it is not
df_setitem(df, header, values) ==
  IF ColumnsNamed(df, header) /= {}
  THEN [columns |-> df.columns,
        rows    |-> List([i \in 1..Len(df.rows) |->
                       List([j \in 1..Len(df.columns) |->
                         IF df.columns[j] = header
                         THEN values[i] ELSE df.rows[i][j]])])]
  ELSE [columns |-> Append(df.columns, header),
        rows    |-> List([i \in 1..Len(df.rows) |->
                       Append(df.rows[i], values[i])])]

RankHeader(report_month) == report_month \o RANK_SUFFIX

\* a status header that repeats the rank header
StatusHeaderAsRank(report_month) == report_month \o RANK_SUFFIX

StatusHeader(report_month) == report_month \o STATUS_SUFFIX

(***************************************************************************)
(* Rank Assigner.  A ranking is [rank |-> cell, status |-> cell].          *)
(***************************************************************************)
Reverse(s) == List([i \in 1..Len(s) |-> s[Len(s) + 1 - i]])

GrowthCell(n) == [rank |-> str_of_nat(n) \o UP_GLYPH, status |-> GROWTH]

\* a contraction rank written without its minus sign
ContractionCellUnsigned(n) ==
  [rank |-> str_of_nat(n) \o DOWN_GLYPH, status |-> CONTRACTION]

ContractionCell(n) ==
  [rank |-> <<"-">> \o str_of_nat(n) \o DOWN_GLYPH, status |-> CONTRACTION]

NeutralCell == [rank |-> NEUTRAL_RANK, status |-> NEUTRAL]

\* next((i for i, g in enumerate(reversed(names), 1)
\*       if match_industry_name(g, [industry])), None), with 0 for None
MinOrZero(S) == IF S = {} THEN 0 ELSE Min(S)

FirstMatch(rev, industry) ==
  MinOrZero({i \in 1..Len(rev) :
               Truthy(match_industry_name(rev[i], <<industry>>))})

\* the position in the list as the report gives it
FirstMatchForward(names, industry) == FirstMatch(names, industry)

FirstMatchReversed(names, industry) == FirstMatch(Reverse(names), industry)

\* the cell pair of one row from its growth and contraction positions (0 for
\* none); the contraction position counts only when there is no growth one
RankCell(matched_growth, matched_contraction) ==
  IF matched_growth /= 0 THEN GrowthCell(matched_growth)
  ELSE IF matched_contraction /= 0 THEN ContractionCell(matched_contraction)
  ELSE NeutralCell

\* manufacturing variant: one row
RankMfg(industry, growth, contraction) ==
  RankCell(FirstMatchReversed(growth, industry),
           FirstMatchReversed(contraction, industry))

\* service variant: the keys of growth_positions (contraction_positions) in
\* insertion order, which is the order sorted(...) by first mention gives
AddKey(keys, matched) ==
  IF Truthy(matched) /\ matched \notin Range(keys)
  THEN Append(keys, matched) ELSE keys

RECURSIVE PositionKeys(_, _, _)
PositionKeys(mentions, names, keys) ==
  IF mentions = <<>> THEN keys
  ELSE PositionKeys(Tail(mentions), names,
                    AddKey(keys, match_industry_name(Head(mentions), names)))

\* ranks in the order of mention: 1 for the first key
RankOfKeyForward(keys, industry) ==
  LET at == {p \in 1..Len(keys) : keys[p] = industry}
  IN  IF at = {} THEN 0 ELSE Min(at)

\* growth_ranks[industry] (contraction_ranks[industry]), with 0 when absent
RankOfKey(keys, industry) ==
  LET at == {p \in 1..Len(keys) : keys[p] = industry}
  IN  IF at = {} THEN 0 ELSE Len(keys) - Min(at) + 1

\* service variant: one row
RankSvc(industry, growth_keys, contraction_keys) ==
  RankCell(RankOfKey(growth_keys, industry),
           RankOfKey(contraction_keys, industry))

RankingsMfg(names, growth, contraction) ==
  List([i \in 1..Len(names) |-> RankMfg(names[i], growth, contraction)])

RankingsSvc(names, growth_keys, contraction_keys) ==
  List([i \in 1..Len(names) |-> RankSvc(names[i], growth_keys, contraction_keys)])

\* rankings and statuses of all rows
Rankings(v, names, growth, contraction) ==
  IF v = "mfg" THEN RankingsMfg(names, growth, contraction)
  ELSE RankingsSvc(names, PositionKeys(growth, names, <<>>),
                   PositionKeys(contraction, names, <<>>))

(***************************************************************************)
(* Historical Formatter: apply_historical_formatting.  It reads the        *)
(* workbook written by to_excel (an empty cell reads as None) and sets     *)
(* the font of rank cells and the fill of status cells; cell values are    *)
(* not assigned.  styles[i][j] is the style of the cell in row i, column j.*)
(***************************************************************************)
color_intensity == 150

base_brightness == 205

\* str(cell.value) of a workbook cell
CellStr(cell) == IF cell = <<>> THEN <<"N","o","n","e">> ELSE cell

\* re.search(r'-?\d+', s): the start of the leftmost match, 0 when none
RankMatchStart(s) ==
  LET starts == {i \in 1..Len(s) :
                   \/ IsDigit(s[i])
                   \/ s[i] = "-" /\ i < Len(s) /\ IsDigit(s[i + 1])}
  IN  IF starts = {} THEN 0 ELSE Min(starts)

\* float(re.search(r'-?\d+', s).group()) as an integer; requires a match
RankValue(s) ==
  LET b     == RankMatchStart(s)
      neg   == s[b] = "-"
      d     == IF neg THEN b + 1 ELSE b
      stops == {k \in d..Len(s) : ~IsDigit(s[k])}
      e     == IF stops = {} THEN Len(s) ELSE Min(stops) - 1
      n     == int_of_digits(SubSeq(s, d, e))
  IN  IF neg THEN 0 - n ELSE n

Abs(n) == IF n < 0 THEN 0 - n ELSE n

\* int(base_brightness - color_intensity * abs(rank_value / bound)) in exact
\* arithmetic, truncating toward zero (the float computation gives the same
\* integer while abs(bound) < 15); requires bound /= 0
Channel(rank_value, bound) ==
  LET num == base_brightness * Abs(bound) - color_intensity * Abs(rank_value)
  IN  IF num >= 0 THEN num \div Abs(bound) ELSE 0 - ((0 - num) \div Abs(bound))

\* month_data: for the header of column j, the month it names as a rank
\* column (" Rank" in header) or, failing that, as a status column
IsRankHeader(h) == str_in(RANK_SUFFIX, h)

IsStatusHeader(h) == ~str_in(RANK_SUFFIX, h) /\ str_in(STATUS_SUFFIX, h)

MonthOfHeader(h) ==
  IF IsRankHeader(h) THEN str_remove(h, RANK_SUFFIX)
  ELSE str_remove(h, STATUS_SUFFIX)

\* what the scan of the header row records for one column
HeaderRole(h) ==
  [rank |-> IsRankHeader(h), status |-> IsStatusHeader(h),
   month |-> MonthOfHeader(h)]

\* month_data[month]["rank_col"]: the last rank column of the month, 0 if none
RankColOf(roles, month) ==
  LET c == {j \in 1..Len(roles) : roles[j].rank /\ roles[j].month = month}
  IN  IF c = {} THEN 0 ELSE Max(c)

\* month_data[month]["status_col"]
StatusColOf(roles, month) ==
  LET c == {j \in 1..Len(roles) : roles[j].status /\ roles[j].month = month}
  IN  IF c = {} THEN 0 ELSE Max(c)

\* the parse of one rank cell: whether the pattern matches, and the value
ParsedRank(cell) ==
  LET s == CellStr(cell)
  IN  IF RankMatchStart(s) = 0 THEN [matched |-> FALSE, value |-> 0]
      ELSE [matched |-> TRUE, value |-> RankValue(s)]

\* a month record whose max_rank and min_rank are taken over the rank
\* columns of every month of the sheet
MonthRecordSheetWide(t, rank_col, status_col) ==
  LET parsed == List([i \in 1..Len(t.rows) |-> ParsedRank(t.rows[i][rank_col])])
      values == {ParsedRank(t.rows[i][j]).value :
                   i \in 1..Len(t.rows),
                   j \in {c \in 1..Len(t.columns) : IsRankHeader(t.columns[c])}}
  IN  [rank_col   |-> rank_col,
       status_col |-> status_col,
       parsed     |-> parsed,
       max_rank   |-> Max(values),
       min_rank   |-> Min(values)]

\* One record per month that has both columns, in column order: the two
\* column positions, the parse of every rank cell, and max_rank and
\* min_rank over rank_values (unparsable cells count as 0).  No month is
\* processed when the sheet has no data row.
MonthRecord(t, rank_col, status_col) ==
  LET parsed == List([i \in 1..Len(t.rows) |-> ParsedRank(t.rows[i][rank_col])])
      values == {parsed[i].value : i \in 1..Len(parsed)}
  IN  [rank_col   |-> rank_col,
       status_col |-> status_col,
       parsed     |-> parsed,
       max_rank   |-> Max(values),
       min_rank   |-> Min(values)]

MonthInfo(t) ==
  LET roles  == List([j \in 1..Len(t.columns) |-> HeaderRole(t.columns[j])])
      ranked == SelectSeq(List([j \in 1..Len(roles) |-> j]),
                          LAMBDA j :
                            /\ Len(t.rows) > 0
                            /\ roles[j].rank
                            /\ RankColOf(roles, roles[j].month) = j
                            /\ StatusColOf(roles, roles[j].month) /= 0)
  IN  List([k \in 1..Len(ranked) |->
             MonthRecord(t, ranked[k],
                         StatusColOf(roles, roles[ranked[k]].month))])

\* whether formatting row i of the month raises: a status cell that is None
\* (TypeError), or a division by a zero max_rank or min_rank
RowRaises(t, mi, i) ==
  LET status == t.rows[i][mi.status_col]
  IN  /\ mi.parsed[i].matched
      /\ \/ status = <<>>
         \/ str_in(GROWTH, status) /\ mi.max_rank = 0
         \/ ~str_in(GROWTH, status) /\ str_in(CONTRACTION, status)
            /\ mi.min_rank = 0

FontOf(rank_value) ==
  IF rank_value > 0 THEN "006100"
  ELSE IF rank_value < 0 THEN "9C0006" ELSE "FFC000"

\* the fill of the status cell of row i of the month
FillOf(t, mi, i) ==
  LET status == t.rows[i][mi.status_col]
  IN  IF str_in(GROWTH, status)
      THEN [font |-> "", fill |-> "green",
            channel |-> Channel(mi.parsed[i].value, mi.max_rank)]
      ELSE IF str_in(CONTRACTION, status)
           THEN [font |-> "", fill |-> "red",
                 channel |-> Channel(mi.parsed[i].value, mi.min_rank)]
           ELSE [font |-> "", fill |-> "FFEB9C", channel |-> 0]

\* the style the pass leaves on the cell in row i, column j
StyleOf(t, info, i, j) ==
  LET sm == {k \in 1..Len(info) : info[k].status_col = j /\ info[k].parsed[i].matched}
      rm == {k \in 1..Len(info) : info[k].rank_col = j /\ info[k].parsed[i].matched}
  IN  IF sm /= {} THEN FillOf(t, info[Max(sm)], i)
      ELSE IF rm /= {}
           THEN [font    |-> FontOf(info[Max(rm)].parsed[i].value),
                 fill    |-> "", channel |-> 0]
           ELSE NoStyle

\* the workbook after the pass; nothing is saved when the pass raises
FormatRaises(t, info) ==
  \E k \in 1..Len(info) : \E i \in 1..Len(t.rows) : RowRaises(t, info[k], i)

\* a pass that also stores in each rank cell the number it parsed from it
FormatStoringRanks(t, info) ==
  [raised |-> FALSE,
   file   |-> [t EXCEPT !.rows =
                 List([i \in 1..Len(t.rows) |->
                   List([j \in 1..Len(t.columns) |->
                     IF \E k \in 1..Len(info) :
                          info[k].rank_col = j /\ info[k].parsed[i].matched
                     THEN str_of_nat(Abs(info[CHOOSE k \in 1..Len(info) :
                                               info[k].rank_col = j].parsed[i].value))
                     ELSE t.rows[i][j]])])]]

FormatWith(t, info) ==
  IF FormatRaises(t, info) THEN [raised |-> TRUE, file |-> t]
  ELSE [raised |-> FALSE,
        file   |-> [t EXCEPT !.styles =
                      List([i \in 1..Len(t.rows) |->
                        List([j \in 1..Len(t.columns) |->
                          StyleOf(t, info, i, j)])])]]

apply_historical_formatting(t) == FormatWith(t, MonthInfo(t))

(***************************************************************************)
(* update_excel_data: one run of the pipeline against one document.        *)
(* The result is the file after the run, the DataFrame returned to the     *)
(* caller and how the run ended.                                           *)
(***************************************************************************)
\* df[name_col].str.strip(): NaN stays NaN
StripCell(c) == IF c = NaN THEN NaN ELSE str_strip(c)

\* the DataFrame and existing_industries as loaded at the start of a run
LoadedFrame(v, f) ==
  IF f.exists THEN dropna_all(read_excel(f))
  ELSE df_of_names(v, STANDARD_INDUSTRIES(v))

\* existing_industries taken from the seed whatever the file holds
ExistingIndustriesFromSeed(v, f) == STANDARD_INDUSTRIES(v)

\* df[name_col].str.strip().tolist()
StripColumn(cells) == List([i \in 1..Len(cells) |-> StripCell(cells[i])])

ExistingIndustries(v, f) ==
  IF f.exists THEN StripColumn(df_column(LoadedFrame(v, f), NameCol(v)))
  ELSE STANDARD_INDUSTRIES(v)

\* [industry for industry in growth + contraction
\*  if not match_industry_name(industry, existing_industries)]
NewIndustries(mentions, existing_industries) ==
  SelectSeq(mentions,
            LAMBDA industry :
              ~Truthy(match_industry_name(industry, existing_industries)))

\* the DataFrame after the new rows, the drop of the month's columns and
\* the two assignments of the month's columns
\* if new_industries: df = pd.concat([df, new_rows], ignore_index=True)
AddNewRows(v, df, new_industries) ==
  IF new_industries /= <<>> THEN concat_new_rows(v, df, new_industries) ELSE df

\* a drop of every column but the name column
DropEveryMonth(df, report_month) ==
  df_drop(df, Range(df.columns) \ {df.columns[1]})

\* no drop at all: the assignment then writes into the columns in place
KeepMonth(df, report_month) == df

\* df = df.drop(columns=[f"{report_month} Rank", f"{report_month} Status"],
\*              errors='ignore')
DropMonth(df, report_month) ==
  df_drop(df, {RankHeader(report_month), StatusHeader(report_month)})

\* df[f"{report_month} Rank"] = rankings
\* df[f"{report_month} Status"] = statuses
SetMonth(df, report_month, rk) ==
  df_setitem(df_setitem(df, RankHeader(report_month),
                        List([i \in 1..Len(rk) |-> rk[i].rank])),
             StatusHeader(report_month),
             List([i \in 1..Len(rk) |-> rk[i].status]))

\* rankings that give the neutral cell to every row whose name the seed
\* vocabulary does not have
RankedSeedRows(v, df, report_month, growth, contraction) ==
  SetMonth(df, report_month,
           LET names == df_column(df, NameCol(v))
               rk    == Rankings(v, names, growth, contraction)
           IN  List([i \in 1..Len(names) |->
                      IF names[i] \in Range(STANDARD_INDUSTRIES(v))
                      THEN rk[i] ELSE NeutralCell]))

\* the rankings of the rows of df, assigned to the month's two columns
RankedFrame(v, df, report_month, growth, contraction) ==
  SetMonth(df, report_month,
           Rankings(v, df_column(df, NameCol(v)), growth, contraction))

\* the DataFrame after the new rows, the drop of the month's columns and
\* the two assignments of the month's columns
MergedFrame(v, df, existing_industries, report_month, growth, contraction) ==
  RankedFrame(v,
              DropMonth(AddNewRows(v, df,
                                   NewIndustries(growth \o contraction,
                                                 existing_industries)),
                        report_month),
              report_month, growth, contraction)

\* a return that saves the DataFrame first
AbortedAfterSave(f, df, outcome) ==
  [file |-> to_excel(df), df |-> df, outcome |-> outcome]

\* a return before anything is written
Aborted(f, df, outcome) == [file |-> f, df |-> df, outcome |-> outcome]

\* df.to_excel(file_path, index=False); apply_historical_formatting(file_path);
\* return df.  When the formatter raises, the file stays as to_excel wrote it.
Saved(merged, formatted) ==
  [file    |-> formatted.file,
   df      |-> merged,
   outcome |-> IF formatted.raised THEN "format_error" ELSE "merged"]

Written(merged) == Saved(merged, apply_historical_formatting(to_excel(merged)))

UpdateFrom(v, f, doc, df, report_month, data) ==
  IF ~doc.fetch_ok THEN Aborted(f, df, "fetch_error")
  ELSE IF ~Truthy(report_month) THEN Aborted(f, df, "no_month")
  ELSE IF ~Truthy(data.growth) /\ ~Truthy(data.contraction)
  THEN Aborted(f, df, "no_data")
  ELSE Written(MergedFrame(v, df, ExistingIndustries(v, f), report_month,
                           data.growth, data.contraction))

update_excel_data(v, f, doc) ==
  UpdateFrom(v, f, doc, LoadedFrame(v, f), extract_report_month(doc),
             extract_industry_data(v, doc))

(***************************************************************************)
(* Documents.                                                              *)
(***************************************************************************)
Months == {March, April}

\* a fetch that raises: transport error, timeout or non-2xx status
EmptyDoc ==
  [fetch_ok   |-> FALSE,
   has_period |-> FALSE, month |-> <<>>, year |-> <<>>,
   has_growth |-> FALSE, growth |-> <<>>,
   has_contraction |-> FALSE, contraction |-> <<>>]

\* a fetched report for month m with capture groups g and c
ReportDoc(m, g, c) ==
  [fetch_ok   |-> TRUE,
   has_period |-> TRUE, month |-> m, year |-> Y2025,
   has_growth |-> g /= None, growth |-> IF g = None THEN <<>> ELSE g,
   has_contraction |-> c /= None,
   contraction |-> IF c = None THEN <<>> ELSE c]

\* a fetched page in which the period pattern finds nothing
NoPeriodDoc(v) ==
  [ReportDoc(March, KnownName(v), None) EXCEPT !.has_period = FALSE]

Docs(v) ==
  {EmptyDoc, NoPeriodDoc(v)}
  \cup {ReportDoc(m, g, c) :
          m \in Months, g \in GrowthSpans(v), c \in ContractionSpans(v)}

DocsMfg == Docs("mfg")

DocsSvc == Docs("svc")

(***************************************************************************)
(* The state machine.  variant is the pipeline (a script and its ledger    *)
(* file), file the ledger file, ret the DataFrame the last call returned.  *)
(* runs counts the calls; last records the last call (at is the column at  *)
(* which the ledger held the rank column of the call's label before the    *)
(* call, 0 if it held none); source maps every period label merged so far  *)
(* to the document of its latest merge.                                    *)
(* applied holds the arguments of one call of a function of the scripts    *)
(* taken by itself and, once the call is done, its result; Idle when the   *)
(* pipeline is what runs.  sessions holds the user sessions of app.py and  *)
(* batch the enrichment batch; both stay as they start while the pipeline  *)
(* runs by itself.                                                         *)
(***************************************************************************)
MaxRuns == 3

\* the user sessions of app.py
MaxSessions == 2

Sessions == 1..MaxSessions

\* st.session_state of a session before its button is clicked; doc is the
\* document at the URL the user gave, loaded the file update_excel_data
\* read, outcome how its run ended
NoSession ==
  [pc |-> "idle", doc |-> EmptyDoc, loaded |-> NoFile, outcome |-> "",
   download_data |-> None, processed |-> FALSE, message |-> ""]

\* no batch running
NoBatch ==
  [script |-> "", fate |-> <<>>, pending |-> {}, all_data |-> <<>>,
   error_symbols |-> <<>>, pc |-> "idle"]

Idle == [op |-> "idle", done |-> FALSE]

NoCall ==
  [ran |-> FALSE, doc |-> EmptyDoc, outcome |-> "", repeat |-> FALSE,
   appended |-> 0, at |-> 0]

Init ==
  /\ variant \in {"mfg", "svc"}
  /\ file = NoFile
  /\ ret = [columns |-> <<>>, rows |-> <<>>]
  /\ runs = 0
  /\ last = NoCall
  /\ source = <<>>
  /\ applied = Idle
  /\ sessions = [s \in Sessions |-> NoSession]
  /\ batch = NoBatch

Wrote(outcome) == outcome \in {"merged", "format_error"}

\* the call update_excel_data(file_path, url) returning r
Call(v, doc, r) ==
  /\ file' = r.file
  /\ ret' = r.df
  /\ last' = [ran      |-> TRUE,
              doc      |-> doc,
              outcome  |-> r.outcome,
              repeat   |-> last.outcome = "merged" /\ last.doc = doc,
              appended |-> Len(r.df.rows) - Len(LoadedFrame(v, file).rows),
              at       |-> LET c == ColumnsNamed(file, RankHeader(extract_report_month(doc)))
                           IN  IF c = {} THEN 0 ELSE Min(c)]
  /\ source' = IF Wrote(r.outcome)
               THEN (extract_report_month(doc) :> doc) @@ source
               ELSE source

Run(v) ==
  /\ variant = v
  /\ runs < MaxRuns
  /\ \E doc \in (IF v = "mfg" THEN DocsMfg ELSE DocsSvc) :
       Call(v, doc, update_excel_data(v, file, doc))
  /\ runs' = runs + 1
  /\ UNCHANGED <<variant, applied, sessions, batch>>

\* ism_script.py
UpdateManufacturing == Run("mfg")

\* ism_service_script.py
UpdateService == Run("svc")

Next == UpdateManufacturing \/ UpdateService

Spec == Init /\ [][Next]_vars

(***************************************************************************)
(* The pipeline in a wider environment: the documents of the scenarios,    *)
(* and a formatting pass that an exception cuts short before it saves the  *)
(* workbook (load_workbook raising, or an exception on the way to          *)
(* wb.save).                                                               *)
(***************************************************************************)
MaxScenarioRuns == 2

ScenarioDocs(v) ==
  {EmptyDoc}
  \cup {ReportDoc(m, g, c) :
          m \in Months, g \in ScenarioGrowthSpans(v), c \in ContractionSpans(v)}

\* the result r of a run when an exception cuts its formatting pass short:
\* the file is as df.to_excel wrote it, the except clause returns df
Interrupted(r) ==
  IF r.outcome = "merged"
  THEN [file |-> to_excel(r.df), df |-> r.df, outcome |-> "format_error"]
  ELSE r

RunUnder(v) ==
  /\ variant = v
  /\ runs < MaxScenarioRuns
  /\ \E doc \in ScenarioDocs(v), raises \in BOOLEAN :
       Call(v, doc, IF raises THEN Interrupted(update_excel_data(v, file, doc))
                    ELSE update_excel_data(v, file, doc))
  /\ runs' = runs + 1
  /\ UNCHANGED <<variant, applied, sessions, batch>>

ScenarioNext == RunUnder("mfg") \/ RunUnder("svc")

ScenarioSpec == Init /\ [][ScenarioNext]_vars

(***************************************************************************)
(* One function of the scripts taken by itself: the arguments are drawn    *)
(* in the initial state, the one step is the call.                         *)
(***************************************************************************)
\* the lists of at most n entries of S
ListsOf(S, n) == UNION {{List(l) : l \in [1..k -> S]} : k \in 0..n}

Return(result) ==
  /\ ~applied.done
  /\ applied' = [applied EXCEPT !.done = TRUE, !.result = result]
  /\ UNCHANGED <<variant, file, ret, runs, last, source, sessions, batch>>

\* match_industry_name on pools of a few names and on the seed vocabulary
\* of the manufacturing variant
MaxPool == 2

MatchInputs ==
  {[op |-> "match", done |-> FALSE, report_name |-> x,
    standard_names |-> pool, result |-> None] :
     x \in MatcherNames \cup {ElectricalEquip},
     pool \in ListsOf(MatcherNames, MaxPool) \cup {STANDARD_INDUSTRIES_MFG}}

\* apply_historical_formatting on workbooks with one month pair, as
\* df.to_excel writes them: each rank cell a rank string or empty, each
\* status cell a status or empty
MaxSheetRows == 2

FormatInputs ==
  {[op |-> "format", done |-> FALSE,
    sheet |-> to_excel([columns |-> <<NAME_COL_MFG,
                                      RankHeader(extract_report_month(ReportDoc(April, None, None))),
                                      StatusHeader(extract_report_month(ReportDoc(April, None, None)))>>,
                        rows    |-> rows]),
    result |-> None] :
     rows \in ListsOf({<<Machinery, rank, status>> :
                         rank \in {NEUTRAL_RANK, GrowthCell(1).rank,
                                   GrowthCell(2).rank, ContractionCell(1).rank,
                                   <<>>},
                         status \in {GROWTH, CONTRACTION, NEUTRAL, <<>>}},
                      MaxSheetRows)}

\* the rank assignment of either variant on a ledger of three rows, one
\* with two rows of one name, and lists of names that match one row, by
\* equality or as a part of its name, or none; among the lists, one that
\* mentions a name again after another name
MaxMentions == 2

RankInputs ==
  {[op |-> "rank", done |-> FALSE, v |-> v, names |-> names,
    growth |-> growth, contraction |-> contraction, result |-> None] :
     v \in {"mfg", "svc"},
     names \in {<<STANDARD_INDUSTRIES_MFG[2], Machinery, STANDARD_INDUSTRIES_MFG[6]>>,
                <<Machinery, Crypto, Crypto>>},
     growth \in ListsOf({Machinery, STANDARD_INDUSTRIES_MFG[2], <<"M","e","t","a","l","s">>, Crypto},
                        MaxMentions)
                \cup {<<Machinery, STANDARD_INDUSTRIES_MFG[2], Machinery>>},
     contraction \in ListsOf({Machinery, STANDARD_INDUSTRIES_MFG[2], <<"M","e","t","a","l","s">>, Crypto},
                             MaxMentions)
                     \cup {<<Machinery, STANDARD_INDUSTRIES_MFG[2], Machinery>>}}

FunctionInit ==
  /\ applied \in MatchInputs \cup FormatInputs \cup RankInputs
  /\ variant = "mfg"
  /\ file = NoFile
  /\ ret = [columns |-> <<>>, rows |-> <<>>]
  /\ runs = 0
  /\ last = NoCall
  /\ source = <<>>
  /\ sessions = [s \in Sessions |-> NoSession]
  /\ batch = NoBatch

MatchIndustryName ==
  /\ applied.op = "match"
  /\ Return(match_industry_name(applied.report_name, applied.standard_names))

ApplyHistoricalFormatting ==
  /\ applied.op = "format"
  /\ Return(apply_historical_formatting(applied.sheet))

\* the loop of update_excel_data that fills rankings and statuses
AssignRanks ==
  /\ applied.op = "rank"
  /\ Return(Rankings(applied.v, applied.names, applied.growth,
                     applied.contraction))

FunctionNext == MatchIndustryName \/ ApplyHistoricalFormatting \/ AssignRanks

FunctionSpec == FunctionInit /\ [][FunctionNext]_vars

(***************************************************************************)
(* app.py: the handler of the button 'Update ISM Report'.  Every session   *)
(* runs the script in a thread of its own; all sessions of one report type *)
(* use the path temp_<report_type>.xlsx, which is file here.  A step is    *)
(* one operation on that path: the write of the upload, the read at the    *)
(* head of update_excel_data, its save after the fetch, the read back, the *)
(* removal in the finally clause.                                          *)
(***************************************************************************)
\* the ledgers the sessions upload: one row each, with different names
UploadNames(v) == <<KnownName(v), Crypto, Drones>>

\* uploaded_file.getvalue() of session s; it passes validate_file
Uploaded(v, s) == to_excel(df_of_names(v, <<UploadNames(v)[s]>>))

\* the documents at the URLs the users give: one that cannot be fetched,
\* one that reports growth of a seed industry
AppDocs(v) == {EmptyDoc, ReportDoc(April, KnownName(v), None)}

\* with open(temp_path, "wb") as f: f.write(uploaded_file.getvalue())
WriteUpload(s) ==
  /\ sessions[s].pc = "idle"
  /\ \E doc \in AppDocs(variant) :
       sessions' = [sessions EXCEPT ![s].pc = "written", ![s].doc = doc]
  /\ file' = Uploaded(variant, s)
  /\ UNCHANGED <<variant, ret, runs, last, source, applied, batch>>

\* update_excel_data(temp_path, url) up to the request: the file is read if
\* it exists
LoadLedger(s) ==
  /\ sessions[s].pc = "written"
  /\ sessions' = [sessions EXCEPT ![s].pc = "loaded", ![s].loaded = file]
  /\ UNCHANGED <<variant, file, ret, runs, last, source, applied, batch>>

\* the rest of update_excel_data, returning r: the file is written only by a
\* run that gets as far as df.to_excel; the return value is dropped
Returned(s, r) ==
  /\ sessions' = [sessions EXCEPT ![s].pc = "updated", ![s].outcome = r.outcome]
  /\ file' = IF Wrote(r.outcome) THEN r.file ELSE file

SaveLedger(s) ==
  /\ sessions[s].pc = "loaded"
  /\ Returned(s, update_excel_data(variant, sessions[s].loaded, sessions[s].doc))
  /\ UNCHANGED <<variant, ret, runs, last, source, applied, batch>>

\* with open(temp_path, "rb") as f: st.session_state.download_data = f.read()
\* st.session_state.processed = True; st.success(...); a missing file raises
\* and the except clause shows the error
ReadBack(s) ==
  /\ sessions[s].pc = "updated"
  /\ sessions' = IF file.exists
                 THEN [sessions EXCEPT ![s].pc = "finally",
                                       ![s].download_data = file,
                                       ![s].processed = TRUE,
                                       ![s].message = "Report updated successfully!"]
                 ELSE [sessions EXCEPT ![s].pc = "finally",
                                       ![s].message = "Error"]
  /\ UNCHANGED <<variant, file, ret, runs, last, source, applied, batch>>

\* finally: if os.path.exists(temp_path): os.remove(temp_path)
RemoveTemp(s) ==
  /\ sessions[s].pc = "finally"
  /\ sessions' = [sessions EXCEPT ![s].pc = "done"]
  /\ file' = NoFile
  /\ UNCHANGED <<variant, ret, runs, last, source, applied, batch>>

AppNext ==
  \E s \in Sessions :
    \/ WriteUpload(s)
    \/ LoadLedger(s)
    \/ SaveLedger(s)
    \/ ReadBack(s)
    \/ RemoveTemp(s)

AppSpec == Init /\ [][AppNext]_vars

(***************************************************************************)
(* rapid.py main and rapid_copy.py process_tickers: the batch over the     *)
(* submitted symbols.  fate is what fetch_and_parse does for each symbol;  *)
(* as_completed hands the futures over in any order.                       *)
(***************************************************************************)
MaxSymbols == 3

Symbols == 1..MaxSymbols

\* fetch_and_parse(symbol): a row, (symbol, None) after a failed fetch,
\* (symbol, {}) after a KeyError in parse_summary, or another exception of
\* parse_summary, which future.result() raises again
Fates == {"row", "fetch_error", "missing_key", "raises"}

BatchInit ==
  /\ \E script \in {"rapid", "rapid_copy"}, fate \in [Symbols -> Fates] :
       batch = [script |-> script, fate |-> fate, pending |-> Symbols,
                all_data |-> <<>>, error_symbols |-> <<>>, pc |-> "collecting"]
  /\ variant = "mfg"
  /\ file = NoFile
  /\ ret = [columns |-> <<>>, rows |-> <<>>]
  /\ runs = 0
  /\ last = NoCall
  /\ source = <<>>
  /\ applied = Idle
  /\ sessions = [s \in Sessions |-> NoSession]

\* one turn of the loop over as_completed(futures)
Collect(symbol) ==
  /\ batch.pc = "collecting"
  /\ symbol \in batch.pending
  /\ batch' = IF batch.fate[symbol] = "row"
              THEN [batch EXCEPT !.pending = @ \ {symbol},
                                 !.all_data = Append(@, symbol)]
              ELSE [batch EXCEPT !.pending = @ \ {symbol},
                                 !.error_symbols = Append(@, symbol)]
  /\ UNCHANGED <<variant, file, ret, runs, last, source, applied, sessions>>

\* after the loop: rapid.py builds pd.DataFrame(all_data) and reads its
\* column 'Avg Volume 10D (M)', a KeyError when all_data is empty;
\* rapid_copy.py does so under 'if all_data:'.  The failed list is written
\* last.
Summarise ==
  /\ batch.pc = "collecting"
  /\ batch.pending = {}
  /\ batch' = [batch EXCEPT !.pc = IF batch.script = "rapid" /\ batch.all_data = <<>>
                                   THEN "raised" ELSE "saved"]
  /\ UNCHANGED <<variant, file, ret, runs, last, source, applied, sessions>>

BatchNext == (\E symbol \in Symbols : Collect(symbol)) \/ Summarise

BatchSpec == BatchInit /\ [][BatchNext]_vars

(***************************************************************************)
(* Notions the properties are stated with.                                 *)
(***************************************************************************)
\* the period labels merged so far
Labels == DOMAIN source

\* the label of the last call's document
LastLabel == extract_report_month(last.doc)

\* the cell of row i under the header h (the header is present)
CellOf(t, i, h) == t.rows[i][Min(ColumnsNamed(t, h))]

\* the name column of the ledger as a run loads it
LedgerNames(f) == df_column(LoadedFrame(variant, f), NameCol(variant))

\* the growth mentions followed by the contraction mentions of a document
Mentions(doc) ==
  extract_industry_data(variant, doc).growth
  \o extract_industry_data(variant, doc).contraction

IsPrefix(a, b) == Len(a) <= Len(b) /\ SubSeq(b, 1, Len(a)) = a

\* a is b with some entries left out, the order kept
RECURSIVE IsSubsequence(_, _)
IsSubsequence(a, b) ==
  IF a = <<>> THEN TRUE
  ELSE IF b = <<>> THEN FALSE
  ELSE IF Head(a) = Head(b) THEN IsSubsequence(Tail(a), Tail(b))
  ELSE IsSubsequence(a, Tail(b))

\* a positive integer as str() writes it
PositiveInteger(s) ==
  s /= <<>> /\ s[1] /= "0" /\ \A i \in 1..Len(s) : IsDigit(s[i])

EndsWith(s, suffix) ==
  Len(s) >= Len(suffix)
  /\ SubSeq(s, Len(s) - Len(suffix) + 1, Len(s)) = suffix

IsGrowthRank(c) ==
  EndsWith(c, UP_GLYPH)
  /\ PositiveInteger(SubSeq(c, 1, Len(c) - Len(UP_GLYPH)))

IsContractionRank(c) ==
  /\ EndsWith(c, DOWN_GLYPH)
  /\ c[1] = "-"
  /\ PositiveInteger(SubSeq(c, 2, Len(c) - Len(DOWN_GLYPH)))

RankAgrees(rank, status) ==
  /\ status \in {GROWTH, CONTRACTION, NEUTRAL}
  /\ status = GROWTH <=> IsGrowthRank(rank)
  /\ status = CONTRACTION <=> IsContractionRank(rank)
  /\ status = NEUTRAL <=> rank = NEUTRAL_RANK

\* the name under the matcher's normalization
Normalized(name) == re_sub_clean(str_lower(str_strip(name)))

\* no category name in the list
Nameless(list) == \A i \in 1..Len(list) : list[i] = <<>>

\* a and b are equal, case ignored
EqualIgnoringCase(a, b) == str_lower(a) = str_lower(b)

\* one of a and b is a part of the other, case ignored
PartOfOther(a, b) ==
  \/ str_in(str_lower(a), str_lower(b))
  \/ str_in(str_lower(b), str_lower(a))

\* the letters, digits and whitespace of a name, in lower case
LettersDigitsBlanks(name) ==
  SelectSeq(str_lower(name),
            LAMBDA c : IsLower(c) \/ IsUpper(c) \/ IsDigit(c) \/ IsSpace(c))

\* the names a batch of mentions adds to a vocabulary, each mention matched
\* against the vocabulary and the additions made before it
RECURSIVE Additions(_, _, _)
Additions(mentions, vocabulary, added) ==
  IF mentions = <<>> THEN added
  ELSE Additions(Tail(mentions), vocabulary,
                 IF Truthy(match_industry_name(Head(mentions),
                                               vocabulary \o added))
                 THEN added ELSE Append(added, Head(mentions)))

\* the positions, counted from the end of the list, of the mentions that
\* match the name of a row
ReversedPositions(list, name) ==
  {p \in 1..Len(list) :
     Truthy(match_industry_name(list[Len(list) + 1 - p], <<name>>))}

\* the row name each mention of the list resolves to among the names of
\* the ledger, None for none
Resolved(list, names) ==
  List([k \in 1..Len(list) |-> match_industry_name(list[k], names)])

\* the row names some mention resolves to
Mentioned(resolved) == Range(resolved) \ {None}

\* the position of the first mention that resolves to the name
FirstMention(resolved, name) ==
  Min({k \in 1..Len(resolved) : resolved[k] = name})

\* G for the name mentioned first, 1 for the one mentioned last, G the
\* number of names mentioned
GroupedRank(resolved, name) ==
  Cardinality({m \in Mentioned(resolved) :
                 FirstMention(resolved, m) >= FirstMention(resolved, name)})

\* the first entry of the pool whose position is in the set, None for none
FirstOf(pool, positions) ==
  IF positions = {} THEN None ELSE pool[Min(positions)]

(***************************************************************************)
(* C1.  Running update_excel_data twice in succession against the same     *)
(* document leaves the ledger file as it was after the first run: the      *)
(* second run adds no row and no column and changes no cell.               *)
(***************************************************************************)
C1_Idempotent == [][last'.repeat => file' = file]_vars

\* a second run of a document that appended two or more rows the first time
C1_Repeated ==
  /\ last.repeat
  /\ last.outcome = "merged"
  /\ Len(file.rows) >= Len(STANDARD_INDUSTRIES(variant)) + 2

(***************************************************************************)
(* C2.  A run whose fetch fails, or whose document has no period label,    *)
(* writes nothing to the ledger file and returns the ledger as it was      *)
(* loaded (the seed table when the file is absent).                        *)
(***************************************************************************)
C2_AbortUnchanged ==
  [][last'.outcome \in {"fetch_error", "no_month"}
     => file' = file /\ ret' = LoadedFrame(variant, file)]_vars

\* an aborted run on a ledger that already holds a month
C2_AbortedOnLedger ==
  /\ last.outcome \in {"fetch_error", "no_month"}
  /\ file.exists
  /\ Labels /= {}

(***************************************************************************)
(* C3.  In both variants a run whose two lists hold no category name       *)
(* (an anchor followed by an empty span included) aborts, and a run with   *)
(* exactly one empty list merges the month.                                *)
(***************************************************************************)
C3_EmptyExtractionAborts ==
  (last.ran /\ last.doc.fetch_ok /\ last.doc.has_period)
  => /\ (Nameless(extract_industry_data(variant, last.doc).growth)
         /\ Nameless(extract_industry_data(variant, last.doc).contraction))
        => last.outcome = "no_data"
     /\ (~Nameless(extract_industry_data(variant, last.doc).growth)
         /\ extract_industry_data(variant, last.doc).contraction = <<>>)
        => last.outcome = "merged"
     /\ (extract_industry_data(variant, last.doc).growth = <<>>
         /\ ~Nameless(extract_industry_data(variant, last.doc).contraction))
        => last.outcome = "merged"

(***************************************************************************)
(* C4.  Every run keeps the names it found as a prefix of the name column, *)
(* and what it appends are mentions of the document in discovery order:    *)
(* growth mentions first, then contraction mentions.                       *)
(***************************************************************************)
C4_AppendOnly ==
  [][/\ IsPrefix(LedgerNames(file), LedgerNames(file'))
     /\ IsSubsequence(SubSeq(LedgerNames(file'), Len(LedgerNames(file)) + 1,
                             Len(LedgerNames(file'))),
                      Mentions(last'.doc))]_vars

\* a run that appended rows from both lists to a ledger that had a month
C4_Appended ==
  /\ last.outcome = "merged"
  /\ last.appended >= 2
  /\ Cardinality(Labels) = 2

(***************************************************************************)
(* C5.  In every ledger file every row holds, in every month pair, a       *)
(* status among Growth, Contraction and Neutral and a rank; a row appended *)
(* later holds '0 ->' and Neutral in the pairs that existed before it.     *)
(***************************************************************************)
C5_EveryCellFilled ==
  \A L \in Labels : \A i \in 1..Len(file.rows) :
    /\ CellOf(file, i, StatusHeader(L)) \in {GROWTH, CONTRACTION, NEUTRAL}
    /\ CellOf(file, i, RankHeader(L)) /= <<>>

(***************************************************************************)
(* C6.  In the month pair a run writes, every row's status is Growth       *)
(* exactly when its rank is a positive integer followed by the up glyph,   *)
(* Contraction exactly when it is a minus sign, a positive integer and     *)
(* the down glyph, and Neutral exactly when it is '0 ->'.  The pairs of    *)
(* earlier runs keep agreeing in every row they filled.                    *)
(***************************************************************************)
C6_RankAgreesWithStatus ==
  \A L \in Labels : \A i \in 1..Len(file.rows) :
    \/ RankAgrees(CellOf(file, i, RankHeader(L)),
                  CellOf(file, i, StatusHeader(L)))
    \/ /\ ~(last.outcome = "merged" /\ L = LastLabel)
       /\ CellOf(file, i, RankHeader(L)) = <<>>
       /\ CellOf(file, i, StatusHeader(L)) = <<>>

\* a run that wrote all three statuses into its pair
C6_AllThreeWritten ==
  /\ last.outcome = "merged"
  /\ \A s \in {GROWTH, CONTRACTION, NEUTRAL} :
       \E i \in 1..Len(file.rows) :
         CellOf(file, i, StatusHeader(LastLabel)) = s

(***************************************************************************)
(* C7.  The ledger has one rank and one status column for each period      *)
(* label merged so far and no other month column: re-processing a label    *)
(* replaces its pair.                                                      *)
(***************************************************************************)
C7_OnePairPerLabel ==
  /\ \A L \in Labels :
       /\ Cardinality(ColumnsNamed(file, RankHeader(L))) = 1
       /\ Cardinality(ColumnsNamed(file, StatusHeader(L))) = 1
  /\ Len(file.columns) = (IF file.exists THEN 1 ELSE 0) + 2 * Cardinality(Labels)

\* two labels merged, the last run re-processing one of them
C7_Reprocessed ==
  /\ Cardinality(Labels) = 2
  /\ last.repeat
  /\ last.outcome = "merged"

(***************************************************************************)
(* C8.  A successful run for a label leaves every cell of every row that   *)
(* existed before it unchanged in the pairs of the other labels.           *)
(***************************************************************************)
C8_OtherMonthsUntouched ==
  [][last'.outcome = "merged"
     => \A j \in 1..Len(file.columns) :
          file.columns[j] \notin {NameCol(variant),
                                  RankHeader(extract_report_month(last'.doc)),
                                  StatusHeader(extract_report_month(last'.doc))}
          => /\ ColumnsNamed(file', file.columns[j]) /= {}
             /\ \A i \in 1..Len(file.rows) :
                  CellOf(file', i, file.columns[j]) = file.rows[i][j]]_vars

\* a run for one label on a ledger holding the pair of the other, to which
\* it appended rows
C8_MergedBesideOther ==
  /\ last.outcome = "merged"
  /\ Cardinality(Labels) = 2
  /\ last.appended > 0

(***************************************************************************)
(* C9.  Re-processing the document of a label that has a pair, whether or  *)
(* not other pairs were added since, leaves the rows and the other         *)
(* columns as they were and rewrites the pair with the same values at the  *)
(* same column position.                                                   *)
(***************************************************************************)
C9_ReprocessInPlace ==
  [][(/\ last'.outcome = "merged"
      /\ extract_report_month(last'.doc) \in Labels
      /\ source[extract_report_month(last'.doc)] = last'.doc)
     => /\ file'.columns = file.columns
        /\ file'.rows = file.rows]_vars

(***************************************************************************)
(* C10.  No two rows of the ledger have names that are equal under         *)
(* case-insensitive, punctuation-stripped comparison.                      *)
(***************************************************************************)
C10_UniqueNames ==
  \A i, j \in 1..Len(LedgerNames(file)) :
    Normalized(LedgerNames(file)[i]) = Normalized(LedgerNames(file)[j]) => i = j

(***************************************************************************)
(* C11.  Matcher reflexivity: for every non-empty name x without leading   *)
(* or trailing whitespace and every pool whose first entry is x,           *)
(* match_industry_name(x, pool) returns x.                                 *)
(***************************************************************************)
C11_Reflexive ==
  (/\ applied.op = "match"
   /\ applied.done
   /\ applied.report_name /= <<>>
   /\ str_strip(applied.report_name) = applied.report_name
   /\ applied.standard_names /= <<>>
   /\ applied.standard_names[1] = applied.report_name)
  => applied.result = applied.report_name

\* x has capitals and the pool goes on with x in another case
C11_ReflexiveAmongVariants ==
  /\ applied.op = "match"
  /\ applied.done
  /\ applied.report_name /= <<>>
  /\ str_strip(applied.report_name) = applied.report_name
  /\ str_lower(applied.report_name) /= applied.report_name
  /\ Len(applied.standard_names) = 2
  /\ applied.standard_names[1] = applied.report_name
  /\ applied.standard_names[2] = str_lower(applied.report_name)
  /\ applied.result = applied.report_name

(***************************************************************************)
(* C12.  A run on a ledger that has 'Electrical Equipment, Appliances &    *)
(* Components' and whose document names 'Electrical Equip & Appliances'    *)
(* resolves the abbreviated name to the standard one: the standard row     *)
(* gets the mention's status and no row with the abbreviated name exists.  *)
(***************************************************************************)
C12_AbbreviationResolves ==
  (/\ last.outcome = "merged"
   /\ ElectricalEquip \in Range(extract_industry_data(variant, last.doc).growth)
   /\ STANDARD_INDUSTRIES_MFG[1] \in Range(LedgerNames(file)))
  => /\ ElectricalEquip \notin Range(LedgerNames(file))
     /\ \A i \in 1..Len(file.rows) :
          LedgerNames(file)[i] = STANDARD_INDUSTRIES_MFG[1]
          => CellOf(file, i, StatusHeader(LastLabel)) = GROWTH

(***************************************************************************)
(* C13.  A run in which an exception occurs, in the fetch or at any later  *)
(* step, the formatting pass included, leaves the ledger file as the last  *)
(* run that completed without exception left it.                           *)
(***************************************************************************)
C13_ExceptionLeavesFile ==
  [][last'.outcome \in {"fetch_error", "format_error"} => file' = file]_vars

(***************************************************************************)
(* C14.  apply_historical_formatting on a month whose rank cells are all   *)
(* '0 ->' raises no exception, whatever the status cells hold, and leaves  *)
(* every status cell with the neutral fill or with the colour of           *)
(* intensity 0.                                                            *)
(***************************************************************************)
C14_ZeroColumnSafe ==
  (/\ applied.op = "format"
   /\ applied.done
   /\ applied.sheet.rows /= <<>>
   /\ \A i \in 1..Len(applied.sheet.rows) :
        applied.sheet.rows[i][2] = NEUTRAL_RANK)
  => /\ ~applied.result.raised
     /\ \A i \in 1..Len(applied.sheet.rows) :
          \/ applied.result.file.styles[i][3].fill = "FFEB9C"
          \/ /\ applied.result.file.styles[i][3].fill \in {"green", "red"}
             /\ applied.result.file.styles[i][3].channel = base_brightness

(***************************************************************************)
(* C15.  match_industry_name returns the first pool entry equal to the     *)
(* trimmed candidate, case ignored, wherever in the pool it is; failing    *)
(* that the first entry that contains the candidate or is contained in     *)
(* it; failing that the first entry equal to it once every character       *)
(* other than letters, digits and whitespace is removed; failing that      *)
(* None.                                                                   *)
(***************************************************************************)
C15_TierOrder ==
  (applied.op = "match" /\ applied.done)
  => LET x     == str_strip(applied.report_name)
         pool  == applied.standard_names
         equal == {i \in 1..Len(pool) : EqualIgnoringCase(x, pool[i])}
         part  == {i \in 1..Len(pool) : PartOfOther(x, pool[i])}
         clean == {i \in 1..Len(pool) :
                     LettersDigitsBlanks(x) = LettersDigitsBlanks(pool[i])}
     IN  applied.result =
           IF equal /= {} THEN FirstOf(pool, equal)
           ELSE IF part /= {} THEN FirstOf(pool, part)
           ELSE FirstOf(pool, clean)

\* the second entry is equal to the candidate and returned, the first only
\* contains it
C15_ExactBehindPart ==
  /\ applied.op = "match"
  /\ applied.done
  /\ Len(applied.standard_names) = 2
  /\ PartOfOther(str_strip(applied.report_name), applied.standard_names[1])
  /\ ~EqualIgnoringCase(str_strip(applied.report_name), applied.standard_names[1])
  /\ EqualIgnoringCase(str_strip(applied.report_name), applied.standard_names[2])
  /\ applied.result = applied.standard_names[2]
  /\ applied.result /= applied.standard_names[1]

(***************************************************************************)
(* C16.  In both variants neither list returned by extract_industry_data   *)
(* holds an empty string: a fragment that is empty after trimming is       *)
(* removed.                                                                *)
(***************************************************************************)
C16_NoEmptyFragment ==
  last.ran
  => /\ <<>> \notin Range(extract_industry_data(variant, last.doc).growth)
     /\ <<>> \notin Range(extract_industry_data(variant, last.doc).contraction)

(***************************************************************************)
(* C17.  The rows a run appends are the mentions, growth first, that match *)
(* neither a row the ledger had before the run nor a name appended before  *)
(* them in the same run: no name is appended twice.                        *)
(***************************************************************************)
C17_NoIntraBatchDuplicate ==
  [][last'.outcome = "merged"
     => SubSeq(LedgerNames(file'), Len(LedgerNames(file)) + 1,
               Len(LedgerNames(file')))
        = Additions(Mentions(last'.doc), LedgerNames(file), <<>>)]_vars

(***************************************************************************)
(* C18.  Manufacturing variant: a row whose name some entry of the         *)
(* reversed growth list matches gets rank +p, p the position of the first  *)
(* such entry, and Growth, whether or not the contraction list matches     *)
(* too; otherwise a row some entry of the reversed contraction list        *)
(* matches gets -q and Contraction; any other row gets '0 ->' and Neutral. *)
(* The growth list Machinery, Textile Mills gives Textile Mills '1 ^' and  *)
(* Machinery '2 ^'.                                                        *)
(***************************************************************************)
C18_ReversePosition ==
  (applied.op = "rank" /\ applied.done /\ applied.v = "mfg")
  => /\ \A i \in 1..Len(applied.names) :
          LET g == ReversedPositions(applied.growth, applied.names[i])
              c == ReversedPositions(applied.contraction, applied.names[i])
          IN  applied.result[i] =
                IF g /= {}
                THEN [rank |-> str_of_nat(Min(g)) \o UP_GLYPH, status |-> GROWTH]
                ELSE IF c /= {}
                THEN [rank   |-> <<"-">> \o str_of_nat(Min(c)) \o DOWN_GLYPH,
                      status |-> CONTRACTION]
                ELSE [rank |-> NEUTRAL_RANK, status |-> NEUTRAL]
     /\ (/\ applied.growth = <<Machinery, STANDARD_INDUSTRIES_MFG[2]>>
         /\ applied.names[1] = STANDARD_INDUSTRIES_MFG[2]
         /\ applied.names[2] = Machinery)
        => /\ applied.result[1] = [rank |-> <<"1", " ", "↑">>, status |-> GROWTH]
           /\ applied.result[2] = [rank |-> <<"2", " ", "↑">>, status |-> GROWTH]

\* Machinery first of two growth mentions and a contraction mention as well
C18_GrowthWins ==
  /\ applied.op = "rank"
  /\ applied.done
  /\ applied.v = "mfg"
  /\ applied.growth = <<Machinery, STANDARD_INDUSTRIES_MFG[2]>>
  /\ applied.contraction = <<Crypto, Machinery>>
  /\ applied.names[2] = Machinery
  /\ applied.result[2] = [rank |-> <<"2", " ", "↑">>, status |-> GROWTH]

(***************************************************************************)
(* C19.  Service variant: every growth mention resolves to at most one     *)
(* row name, and a name several mentions resolve to counts at its first    *)
(* mention; of the G names mentioned, the one mentioned first gets rank G, *)
(* the next G-1, the last 1, with Growth.  The contraction list gives      *)
(* ranks in the same way, written with a minus sign and Contraction.  A    *)
(* row neither list mentions gets '0 ->' and Neutral.                      *)
(***************************************************************************)
C19_GroupedReversed ==
  (applied.op = "rank" /\ applied.done /\ applied.v = "svc")
  => \A i \in 1..Len(applied.names) :
       LET n == applied.names[i]
           g == Resolved(applied.growth, applied.names)
           c == Resolved(applied.contraction, applied.names)
           growth_cell ==
             [rank   |-> str_of_nat(GroupedRank(g, n)) \o UP_GLYPH,
              status |-> GROWTH]
           contraction_cell ==
             [rank   |-> <<"-">> \o str_of_nat(GroupedRank(c, n)) \o DOWN_GLYPH,
              status |-> CONTRACTION]
       IN  /\ (n \in Mentioned(g) /\ n \notin Mentioned(c))
              => applied.result[i] = growth_cell
           /\ (n \notin Mentioned(g) /\ n \in Mentioned(c))
              => applied.result[i] = contraction_cell
           /\ (n \in Mentioned(g) /\ n \in Mentioned(c))
              => applied.result[i] \in {growth_cell, contraction_cell}
           /\ (n \notin Mentioned(g) /\ n \notin Mentioned(c))
              => applied.result[i] = [rank |-> NEUTRAL_RANK, status |-> NEUTRAL]

\* two rows mentioned for growth, a third mentioned twice for contraction
C19_FirstMentionHighest ==
  /\ applied.op = "rank"
  /\ applied.done
  /\ applied.v = "svc"
  /\ applied.names = <<STANDARD_INDUSTRIES_MFG[2], Machinery, STANDARD_INDUSTRIES_MFG[6]>>
  /\ applied.growth = <<Machinery, STANDARD_INDUSTRIES_MFG[2]>>
  /\ applied.contraction = <<<<"M","e","t","a","l","s">>, <<"M","e","t","a","l","s">>>>
  /\ applied.result[2] = [rank |-> <<"2", " ", "↑">>, status |-> GROWTH]
  /\ applied.result[1] = [rank |-> <<"1", " ", "↑">>, status |-> GROWTH]
  /\ applied.result[3] = [rank |-> <<"-", "1", " ", "↓">>, status |-> CONTRACTION]

(***************************************************************************)
(* C20.  apply_historical_formatting changes fonts and fills only: the     *)
(* headers, the number and order of rows and columns and every cell value  *)
(* are after the pass what they were before it.                            *)
(***************************************************************************)
C20_FormatterKeepsData ==
  (applied.op = "format" /\ applied.done)
  => /\ applied.result.file.exists
     /\ applied.result.file.columns = applied.sheet.columns
     /\ applied.result.file.rows = applied.sheet.rows

\* a pass that completed and set a font and a coloured fill in each of two
\* rows
C20_Styled ==
  /\ applied.op = "format"
  /\ applied.done
  /\ ~applied.result.raised
  /\ Len(applied.sheet.rows) = 2
  /\ \A i \in 1..2 :
       /\ applied.result.file.styles[i][2].font /= ""
       /\ applied.result.file.styles[i][3].fill \in {"green", "red"}
  /\ applied.result.file.styles /= applied.sheet.styles

(***************************************************************************)
(* C21.  For each month of a formatted sheet, max_rank is the largest      *)
(* parsed rank, or 1 when that is not positive, and min_rank is the        *)
(* smallest parsed rank, or -1 when that is not negative (unparsable cells *)
(* count as 0).                                                            *)
(***************************************************************************)
C21_MaxMinDefaults ==
  (applied.op = "format" /\ applied.done)
  => \A k \in 1..Len(MonthInfo(applied.sheet)) :
       LET mi     == MonthInfo(applied.sheet)[k]
           values == {mi.parsed[i].value : i \in 1..Len(mi.parsed)}
       IN  /\ mi.max_rank = (IF Max(values) > 0 THEN Max(values) ELSE 1)
           /\ mi.min_rank = (IF Min(values) < 0 THEN Min(values) ELSE 0 - 1)

\* a month of a ledger: its ranks, the style of a status cell, and the fill a
\* status cell is due from the columns of its month
MonthRanks(t, label) ==
  {ParsedRank(CellOf(t, i, RankHeader(label))).value : i \in 1..Len(t.rows)}

StatusStyle(t, i, label) ==
  t.styles[i][Min(ColumnsNamed(t, StatusHeader(label)))]

ScaledFill(t, i, label) ==
  LET rank   == ParsedRank(CellOf(t, i, RankHeader(label)))
      status == CellOf(t, i, StatusHeader(label))
      style  == StatusStyle(t, i, label)
      top    == Max(MonthRanks(t, label))
      bottom == Min(MonthRanks(t, label))
  IN  rank.matched =>
        IF status = GROWTH
        THEN /\ style.fill = "green"
             /\ style.channel * top <= base_brightness * top - color_intensity * rank.value
             /\ (style.channel + 1) * top > base_brightness * top - color_intensity * rank.value
             /\ style.channel \in (base_brightness - color_intensity)..base_brightness
             /\ rank.value = top => style.channel = base_brightness - color_intensity
        ELSE IF status = CONTRACTION
        THEN /\ style.fill = "red"
             /\ style.channel * (0 - bottom) <= base_brightness * (0 - bottom) + color_intensity * rank.value
             /\ (style.channel + 1) * (0 - bottom) > base_brightness * (0 - bottom) + color_intensity * rank.value
             /\ style.channel \in (base_brightness - color_intensity)..base_brightness
             /\ rank.value = bottom => style.channel = base_brightness - color_intensity
        ELSE style.fill = "FFEB9C"

FillsScaled ==
  (file.exists /\ last.outcome = "merged")
  => \A label \in Labels : \A i \in 1..Len(file.rows) : ScaledFill(file, i, label)

OtherMonthKeepsFills ==
  (last.outcome = "merged" /\ last'.outcome = "merged")
  => \A label \in Labels \ {extract_report_month(last'.doc)} :
       \A i \in 1..Len(file.rows) :
         StatusStyle(file', i, label) = StatusStyle(file, i, label)

(***************************************************************************)
(* C22.  In the ledger a run has merged into, the status cell of every row *)
(* with a rank in a month is filled from that month's columns alone: a     *)
(* Growth                                                                  *)
(* cell of rank r has the green fill of channel                            *)
(* trunc(205 - 150 * |r / max_rank|), a Contraction cell the red fill of   *)
(* channel trunc(205 - 150 * |r / min_rank|), max_rank and min_rank being  *)
(* the extremes of the ranks of that month; the channel lies in 55..205    *)
(* and is 55 for the rank of largest magnitude; every other status cell    *)
(* has the fixed neutral fill.  A run that merges another month leaves     *)
(* these fills as they were.                                               *)
(***************************************************************************)
C22_PerMonthScaling == []FillsScaled /\ [][OtherMonthKeepsFills]_vars

\* a formatted ledger of two months: in one the growth ranks are 2 and 1,
\* filled with channels 55 and 130; in the other the only growth rank is 1,
\* filled with channel 55; a month holds contraction ranks filled with 130
\* and 55
C22_TwoMonthsFilled ==
  /\ file.exists
  /\ last.outcome = "merged"
  /\ \E a \in Labels : \E b \in Labels \ {a} :
       /\ \E i \in 1..Len(file.rows), j \in 1..Len(file.rows) :
            /\ CellOf(file, i, RankHeader(a)) = GrowthCell(2).rank
            /\ StatusStyle(file, i, a).channel = 55
            /\ CellOf(file, j, RankHeader(a)) = GrowthCell(1).rank
            /\ StatusStyle(file, j, a).channel = 130
       /\ \E i \in 1..Len(file.rows) :
            /\ CellOf(file, i, RankHeader(b)) = GrowthCell(1).rank
            /\ StatusStyle(file, i, b).channel = 55
       /\ \E i \in 1..Len(file.rows), j \in 1..Len(file.rows) :
            /\ CellOf(file, i, StatusHeader(b)) = CONTRACTION
            /\ StatusStyle(file, i, b).channel = 130
            /\ CellOf(file, j, StatusHeader(b)) = CONTRACTION
            /\ StatusStyle(file, j, b).channel = 55

(***************************************************************************)
(* C25.  After every run that writes the ledger for a label L, the columns *)
(* '<L> Rank' and '<L> Status' are the last two columns, in that order,    *)
(* and the columns before them are the columns the ledger had, less the    *)
(* pair L had, in the order they were in.                                  *)
(***************************************************************************)
C25_ProcessedMonthLast ==
  [][Wrote(last'.outcome)
     => LET L == extract_report_month(last'.doc)
            n == Len(file'.columns)
        IN  /\ n >= 3
            /\ file'.columns[n - 1] = RankHeader(L)
            /\ file'.columns[n] = StatusHeader(L)
            /\ SubSeq(file'.columns, 1, n - 2)
                 = SelectSeq(LoadedFrame(variant, file).columns,
                             LAMBDA h : h \notin {RankHeader(L), StatusHeader(L)})]_vars

\* a run for a label whose pair stood in columns 2 and 3, before the pair of
\* another label, and now stands in columns 4 and 5
C25_MovedToEnd ==
  /\ last.outcome = "merged"
  /\ last.at = 2
  /\ Len(file.columns) = 5
  /\ file.columns[4] = RankHeader(LastLabel)
  /\ file.columns[5] = StatusHeader(LastLabel)
  /\ file.columns[2] /= RankHeader(LastLabel)

(***************************************************************************)
(* C26.  In the pair of every label merged so far, the rows of status      *)
(* Growth carry the ranks 1..G, G the number of those rows, each rank on   *)
(* exactly one row, and the rows of status Contraction the ranks -1..-C,   *)
(* C the number of those rows, each on exactly one row.                    *)
(***************************************************************************)
C26_RanksGapFree ==
  \A L \in Labels :
    LET G == {i \in 1..Len(file.rows) : CellOf(file, i, StatusHeader(L)) = GROWTH}
        C == {i \in 1..Len(file.rows) : CellOf(file, i, StatusHeader(L)) = CONTRACTION}
    IN  /\ \A n \in 1..Cardinality(G) :
             Cardinality({i \in G : CellOf(file, i, RankHeader(L)) = GrowthCell(n).rank}) = 1
        /\ \A n \in 1..Cardinality(C) :
             Cardinality({i \in C : CellOf(file, i, RankHeader(L)) = ContractionCell(n).rank}) = 1

\* well-formed lists: the rows a mention matches, taken one row at a time
MatchedRows(names, mention) ==
  {i \in 1..Len(names) : Truthy(match_industry_name(mention, <<names[i]>>))}

WellFormed(names, growth, contraction) ==
  /\ \A m \in Range(growth) \cup Range(contraction) :
       Cardinality(MatchedRows(names, m)) = 1
  /\ \A m, n \in Range(growth) \cup Range(contraction) :
       m /= n => MatchedRows(names, m) \cap MatchedRows(names, n) = {}
  /\ \A m \in Range(growth), n \in Range(contraction) :
       MatchedRows(names, m) \cap MatchedRows(names, n) = {}

NoRepeat(list) == \A p, q \in 1..Len(list) : list[p] = list[q] => p = q

OtherVariant == IF applied.v = "mfg" THEN "svc" ELSE "mfg"

(***************************************************************************)
(* C27.  On the same rows and the same growth and contraction lists, if    *)
(* every mentioned name matches exactly one row, different names match     *)
(* different rows and no row is matched from both lists, then              *)
(* ism_script.py and ism_service_script.py assign every row the same rank  *)
(* and status.                                                             *)
(***************************************************************************)
C27_PoliciesAgree ==
  (/\ applied.op = "rank"
   /\ applied.done
   /\ WellFormed(applied.names, applied.growth, applied.contraction))
  => applied.result = Rankings(OtherVariant, applied.names, applied.growth,
                               applied.contraction)

(***************************************************************************)
(* C27, for lists that mention no name twice.  On the same rows and the    *)
(* same growth and contraction lists, if every mentioned name matches      *)
(* exactly one row, different names match different rows, no row is        *)
(* matched from both lists and no list holds a name twice, then            *)
(* ism_script.py and ism_service_script.py assign every row the same rank  *)
(* and status.                                                             *)
(***************************************************************************)
C27_PoliciesAgreeWithoutRepeats ==
  (/\ applied.op = "rank"
   /\ applied.done
   /\ WellFormed(applied.names, applied.growth, applied.contraction)
   /\ NoRepeat(applied.growth)
   /\ NoRepeat(applied.contraction))
  => applied.result = Rankings(OtherVariant, applied.names, applied.growth,
                               applied.contraction)

\* well-formed lists without repeats: two growth mentions, ranked 2 and 1,
\* and a contraction mention that is a part of the name of a third row
C27_TwoGrowthOneContraction ==
  /\ applied.op = "rank"
  /\ applied.done
  /\ WellFormed(applied.names, applied.growth, applied.contraction)
  /\ NoRepeat(applied.growth)
  /\ Len(applied.growth) = 2
  /\ Len(applied.contraction) = 1
  /\ applied.contraction[1] \notin Range(applied.names)
  /\ \E i, j, k \in 1..Len(applied.result) :
       /\ applied.result[i] = GrowthCell(2)
       /\ applied.result[j] = GrowthCell(1)
       /\ applied.result[k] = ContractionCell(1)

C23_SingleWriter ==
  \A s, t \in Sessions :
    (sessions[s].pc = "loaded" /\ sessions[t].pc = "loaded") => s = t

\* how often x is in the list
Occurrences(list, x) == Cardinality({p \in 1..Len(list) : list[p] = x})

(***************************************************************************)
(* C24.  The batch never ends in an uncaught error, and when it has ended  *)
(* every submitted symbol is recorded exactly once: in all_data if its     *)
(* fetch and parse gave a row, otherwise in error_symbols.                 *)
(***************************************************************************)
C24_FailureIsolation ==
  /\ batch.pc /= "raised"
  /\ batch.pc = "saved"
     => \A symbol \in Symbols :
          /\ Occurrences(batch.all_data, symbol)
               = (IF batch.fate[symbol] = "row" THEN 1 ELSE 0)
          /\ Occurrences(batch.error_symbols, symbol)
               = (IF batch.fate[symbol] = "row" THEN 0 ELSE 1)

\* the file after a run returning r on the upload
OwnResult(upload, r) == IF Wrote(r.outcome) THEN r.file ELSE upload

(***************************************************************************)
(* C29.  Under every interleaving of the sessions, the bytes a session     *)
(* stores for download are the result of update_excel_data on the file     *)
(* that session uploaded, and no session finds the file removed when it    *)
(* reads it back.                                                          *)
(***************************************************************************)
C29_SessionIsolation ==
  \A s \in Sessions :
    /\ sessions[s].processed
       => sessions[s].download_data
            = OwnResult(Uploaded(variant, s),
                        update_excel_data(variant, Uploaded(variant, s),
                                          sessions[s].doc))
    /\ sessions[s].message /= "Error"

(***************************************************************************)
(* C30.  A session shows the success message and sets processed only if    *)
(* its run of update_excel_data merged and saved a month pair; after a run *)
(* that aborted it shows an error.                                         *)
(***************************************************************************)
C30_SuccessOnlyIfMerged ==
  \A s \in Sessions :
    /\ (sessions[s].processed \/ sessions[s].message = "Report updated successfully!")
       => sessions[s].outcome = "merged"
    /\ (sessions[s].pc \in {"finally", "done"} /\ sessions[s].outcome /= "merged")
       => sessions[s].message = "Error"

====
